---- MODULE Spec2Model ----
(***************************************************************************)
(* A model of rtfm.py: the Sphinx inventory parser (parse_object_inv), the *)
(* fuzzy matcher (finder), the cache bootstrap (run and                    *)
(* build_rtfm_lookup_table) and the command loop (main, do_rtfm).          *)
(*                                                                         *)
(* Python strings that the code inspects character by character are        *)
(* sequences of one-character strings; dictionary keys of the              *)
(* configuration (the page types, the file names) are TLA+ strings.        *)
(***************************************************************************)
EXTENDS Integers, Sequences, FiniteSets, TLC

VARIABLES
    pc,                 \* where the process is: "start", "ready", "exited", "crashed", "quit"
    disk,               \* the files of DATA_FULL_PATH: file name -> content
    rtfm_cache,         \* self.rtfm_cache: key -> index
    current_page_type,  \* self.current_page_type
    render_tree,        \* self.render_tree
    tree,               \* self.tree
    console_output,     \* self.console_output
    printed,            \* what the last loop iteration of main printed as a result
    lastCmd,            \* history: the command last executed
    fetchlog,           \* history: the GET requests the last run() issued, in order
    found,              \* history: the files present when the last run() began
    server,             \* the environment: what session.get gives for each page type
    inv,                \* parser check: the payload handed to parse_object_inv
    parsed,             \* parser check: what parse_object_inv made of it
    call,               \* function check: the arguments a function is called with
    ret                 \* function check: what the function returned

vars == <<pc, disk, rtfm_cache, current_page_type, render_tree, tree,
          console_output, printed, lastCmd, fetchlog, found, server, inv, parsed,
          call, ret>>

(***************************************************************************)
(* Characters and Python's string operations.                              *)
(***************************************************************************)

\* ord(c) for the characters the model uses
CodePoint ==
    ("\n" :> 10) @@ (" " :> 32) @@ ("#" :> 35) @@ ("$" :> 36) @@ ("-" :> 45) @@ ("." :> 46) @@
    ("/" :> 47) @@ ("1" :> 49) @@ ("2" :> 50) @@ (":" :> 58) @@
    ("A" :> 65) @@ ("B" :> 66) @@ ("C" :> 67) @@ ("D" :> 68) @@ ("P" :> 80) @@ ("S" :> 83) @@
    ("a" :> 97) @@ ("b" :> 98) @@ ("c" :> 99) @@ ("d" :> 100) @@ ("e" :> 101) @@
    ("g" :> 103) @@ ("h" :> 104) @@ ("i" :> 105) @@ ("j" :> 106) @@ ("l" :> 108) @@
    ("m" :> 109) @@ ("n" :> 110) @@ ("o" :> 111) @@ ("p" :> 112) @@ ("r" :> 114) @@
    ("s" :> 115) @@ ("t" :> 116) @@ ("u" :> 117) @@ ("v" :> 118) @@ ("x" :> 120) @@ ("y" :> 121) @@
    ("z" :> 122)

\* str.lower() on one character
LowerChar(c) ==
    IF CodePoint[c] >= 65 /\ CodePoint[c] <= 90
    THEN CHOOSE d \in DOMAIN CodePoint : CodePoint[d] = CodePoint[c] + 32
    ELSE c

\* str.lower()
Lower(s) == [i \in 1..Len(s) |-> LowerChar(s[i])]

\* s[i-1:].startswith(sub), with i counted from 1
StartsWithAt(s, sub, i) ==
    /\ i + Len(sub) - 1 <= Len(s)
    /\ \A j \in 1..Len(sub) : s[i + j - 1] = sub[j]

\* sub in s
Contains(s, sub) == \E i \in 1..(Len(s) + 1) : StartsWithAt(s, sub, i)

\* s.endswith(sub)
EndsWith(s, sub) ==
    Len(sub) <= Len(s) /\ StartsWithAt(s, sub, Len(s) - Len(sub) + 1)

\* s[n:]
DropPrefix(s, n) == IF n >= Len(s) THEN <<>> ELSE SubSeq(s, n + 1, Len(s))

\* s[:n]
Take(s, n) == IF n >= Len(s) THEN s ELSE SubSeq(s, 1, n)

RECURSIVE ReplaceFrom(_, _, _, _)
ReplaceFrom(s, old, new, i) ==
    IF i > Len(s) THEN <<>>
    ELSE IF StartsWithAt(s, old, i)
         THEN new \o ReplaceFrom(s, old, new, i + Len(old))
         ELSE <<s[i]>> \o ReplaceFrom(s, old, new, i + 1)

\* s.replace(old, new), old not empty: left to right, non-overlapping
Replace(s, old, new) == ReplaceFrom(s, old, new, 1)

\* the whitespace characters of the model
Whitespace == {" ", "\n"}

\* s.rstrip(): trailing whitespace removed
RECURSIVE Rstrip(_)
Rstrip(s) ==
    IF s # <<>> /\ s[Len(s)] \in Whitespace THEN Rstrip(SubSeq(s, 1, Len(s) - 1)) ELSE s

\* s.partition(sep) for a one-character sep: <<before, sep or '', after>>
Partition(s, sep) ==
    IF \E i \in 1..Len(s) : s[i] = sep
    THEN LET p == CHOOSE i \in 1..Len(s) :
                      s[i] = sep /\ \A j \in 1..(i - 1) : s[j] # sep
         IN  <<SubSeq(s, 1, p - 1), <<sep>>, SubSeq(s, p + 1, Len(s))>>
    ELSE <<s, <<>>, <<>>>>

\* s.split(sep) for a one-character sep: the list of parts
RECURSIVE Split(_, _)
Split(s, sep) ==
    LET p == Partition(s, sep)
    IN  IF p[2] = <<>> THEN <<s>> ELSE <<p[1]>> \o Split(p[3], sep)

\* sep.join(parts)
RECURSIVE Join(_, _)
Join(parts, sep) ==
    IF parts = <<>> THEN <<>>
    ELSE IF Len(parts) = 1 THEN parts[1]
    ELSE parts[1] \o <<sep>> \o Join(Tail(parts), sep)

\* a < b for Python strings: lexicographic by code point
RECURSIVE StrLess(_, _)
StrLess(a, b) ==
    IF b = <<>> THEN FALSE
    ELSE IF a = <<>> THEN TRUE
    ELSE IF a[1] # b[1] THEN CodePoint[a[1]] < CodePoint[b[1]]
    ELSE StrLess(Tail(a), Tail(b))

(***************************************************************************)
(* Dictionaries: a Python dict[str, ...] is a function on its key set.     *)
(***************************************************************************)

EmptyDict == [k \in {} |-> <<>>]

\* d[key] = value
DictSet(d, key, value) ==
    [k \in DOMAIN d \cup {key} |-> IF k = key THEN value ELSE d[k]]

(***************************************************************************)
(* The literals of parse_object_inv.                                       *)
(***************************************************************************)

INV_VERSION ==
    <<"#"," ","S","p","h","i","n","x"," ","i","n","v","e","n","t","o","r","y",
      " ","v","e","r","s","i","o","n"," ","2">>
ZLIB == <<"z","l","i","b">>
PY_MODULE == <<"p","y",":","m","o","d","u","l","e">>
STD_DOC == <<"s","t","d",":","d","o","c">>
OPCODE == <<"o","p","c","o","d","e">>
LABEL == <<"l","a","b","e","l">>
STD == <<"s","t","d">>
DISCORD_PY == <<"d","i","s","c","o","r","d",".","p","y">>
DISCORD_EXT_COMMANDS ==
    <<"d","i","s","c","o","r","d",".","e","x","t",".",
      "c","o","m","m","a","n","d","s",".">>
DISCORD == <<"d","i","s","c","o","r","d",".">>
\* len('# Project: '), the label stripped from header lines 2 and 3
HeaderLabelLen == 11

(***************************************************************************)
(* parse_object_inv.  A payload (response.content behind a                 *)
(* SphinxObjectFileReader) is its four header lines and the decompressed   *)
(* lines; a decompressed line is either one entry_regex does not match     *)
(* (matched = FALSE) or the five groups of its match.                      *)
(***************************************************************************)

\* the location stored for a line that is not skipped: a trailing '$' stands for the name
index_location(line) ==
    IF EndsWith(line.location, <<"$">>)
    THEN SubSeq(line.location, 1, Len(line.location) - 1) \o line.name
    ELSE line.location

\* the key f'{prefix}{key}' under which a line that is not skipped is stored
index_key(line, projname) ==
    LET parts == Partition(line.directive, ":")
        domain == parts[1]
        subdirective == parts[3]
        key0 == IF line.dispname = <<"-">> THEN line.name ELSE line.dispname
        prefix == IF domain = STD THEN subdirective \o <<":">> ELSE <<>>
        key == IF projname = DISCORD_PY
               THEN Replace(Replace(key0, DISCORD_EXT_COMMANDS, <<>>), DISCORD, <<>>)
               ELSE key0
    IN  prefix \o key

\* the loop body without the test of lines 172-173: documents and labels are stored
parse_line_keeping_labels(line, projname, result) ==
    IF ~line.matched THEN result
    ELSE
    LET name == line.name
        directive == line.directive
        parts == Partition(directive, ":")
        domain == parts[1]
        subdirective == parts[3]
    IN  IF (directive = PY_MODULE /\ name \in DOMAIN result) \/ subdirective = OPCODE
        THEN result
        ELSE
        DictSet(result, index_key(line, projname), index_location(line))

\* one pass of the loop body of parse_object_inv over `line`, result so far `result`
parse_line(line, projname, result) ==
    IF ~line.matched THEN result
    ELSE
    LET name == line.name
        directive == line.directive
        parts == Partition(directive, ":")
        domain == parts[1]
        subdirective == parts[3]
    IN  IF (directive = PY_MODULE /\ name \in DOMAIN result) \/ subdirective = OPCODE
        THEN result
        ELSE IF directive = STD_DOC \/ subdirective = LABEL
        THEN result
        ELSE
        DictSet(result, index_key(line, projname), index_location(line))

\* the for loop of parse_object_inv
RECURSIVE parse_lines(_, _, _)
parse_lines(lines, projname, result) ==
    IF lines = <<>> THEN result
    ELSE parse_lines(Tail(lines), projname, parse_line(Head(lines), projname, result))

\* parse_object_inv without the test of the fourth header line
parse_object_inv_any_compression(stream) ==
    LET inv_version == Rstrip(stream.version_line)
        projname == DropPrefix(Rstrip(stream.project_line), HeaderLabelLen)
    IN  IF inv_version # INV_VERSION
        THEN [raised |-> TRUE, result |-> EmptyDict]
        ELSE [raised |-> FALSE,
              result |-> parse_lines(stream.lines, projname, EmptyDict)]

\* parse_object_inv(stream): raised = TRUE stands for the RuntimeError
parse_object_inv(stream) ==
    LET inv_version == Rstrip(stream.version_line)
        projname == DropPrefix(Rstrip(stream.project_line), HeaderLabelLen)
    IN  IF inv_version # INV_VERSION
        THEN [raised |-> TRUE, result |-> EmptyDict]
        ELSE IF ~Contains(stream.compress_line, ZLIB)
        THEN [raised |-> TRUE, result |-> EmptyDict]
        ELSE [raised |-> FALSE,
              result |-> parse_lines(stream.lines, projname, EmptyDict)]

(***************************************************************************)
(* finder: the subsequence matcher.                                        *)
(***************************************************************************)

\* text[j-1:] matches with its first character at to_search[i-1], the lazy
\* gaps '.*?' taking any characters but a newline (re.IGNORECASE)
RECURSIVE MatchesAt(_, _, _, _)
MatchesAt(to_search, text, i, j) ==
    IF j > Len(text) THEN TRUE
    ELSE /\ i <= Len(to_search)
         /\ LowerChar(to_search[i]) = LowerChar(text[j])
         /\ \/ j = Len(text)
            \/ \E k \in (i + 1)..Len(to_search) :
                   /\ \A g \in (i + 1)..(k - 1) : to_search[g] # "\n"
                   /\ MatchesAt(to_search, text, k, j + 1)

\* regex.search(to_search) is not None
Searches(to_search, text) ==
    text = <<>> \/ \E i \in 1..Len(to_search) : MatchesAt(to_search, text, i, 1)

\* r.start(): the zero-based offset of the leftmost match
MatchStart(to_search, text) ==
    IF text = <<>> THEN 0
    ELSE (CHOOSE i \in 1..Len(to_search) :
              /\ MatchesAt(to_search, text, i, 1)
              /\ \A h \in 1..(i - 1) : ~MatchesAt(to_search, text, h, 1)) - 1

\* a sort_key that returns key(tup[1]) alone: the order of the keys, the offset ignored
SortKeyLess_key_only(a, b) == StrLess(a[2], b[2])

\* sort_key(a) < sort_key(b) for suggestions a, b = <<start, key>>
SortKeyLess(a, b) == a[1] < b[1] \/ (a[1] = b[1] /\ StrLess(a[2], b[2]))

\* sorted(suggestions, key=sort_key); the keys of a dict are distinct
RECURSIVE Sorted(_)
Sorted(suggestions) ==
    IF suggestions = {} THEN <<>>
    ELSE LET least == CHOOSE a \in suggestions :
                          \A b \in suggestions \ {a} : SortKeyLess(a, b)
         IN  <<least>> \o Sorted(suggestions \ {least})

\* finder(text, cache.items(), key=lambda t: t[0]): the items <<key, value>>, ranked
finder(text, cache) ==
    LET suggestions == {<<MatchStart(k, text), k>> : k \in {c \in DOMAIN cache : Searches(c, text)}}
        ranked == Sorted(suggestions)
    IN  [n \in 1..Len(ranked) |-> <<ranked[n][2], cache[ranked[n][2]]>>]

(***************************************************************************)
(* do_rtfm.                                                                *)
(***************************************************************************)

\* the matches kept: finder(...)[:8]
MaxResults == 8

EXT == <<"e","x","t",".">>
COMMANDS == <<"c","o","m","m","a","n","d","s",".">>

\* re.sub(r'^(?:discord\.(?:ext\.)?)?(?:commands\.)?(.+)', r'\1', input):
\* the optional groups in the order the regex engine tries them, the first
\* that leaves a character for (.+) being taken
NormalizeQuery(input) ==
    LET tries == <<DISCORD \o EXT \o COMMANDS, DISCORD \o EXT, DISCORD \o COMMANDS,
                   DISCORD, COMMANDS, <<>>>>
        fits(n) == StartsWithAt(input, tries[n], 1) /\ Len(input) > Len(tries[n])
    IN  IF \E n \in 1..Len(tries) : fits(n)
        THEN LET n == CHOOSE m \in 1..Len(tries) :
                          fits(m) /\ \A h \in 1..(m - 1) : ~fits(h)
             IN  DropPrefix(input, Len(tries[n]))
        ELSE input

\* Tree(''): the root alone; a node is its label and its parent's number, 0 the root
NewTree == <<>>

\* the inner loop of the tree branch: for i in range(len(parts)), from i on
RECURSIVE add_parts(_, _, _)
add_parts(parts, i, st) ==
    IF i >= Len(parts) THEN st
    ELSE
    LET current_hierarchy == Join(Take(parts, i + 1), ".")
        parent_hierarchy == Join(Take(parts, i), ".")
        parent_node == IF parent_hierarchy \in DOMAIN st.nodes
                       THEN st.nodes[parent_hierarchy] ELSE 0
        grown == Append(st.tree, [label |-> parts[i + 1], parent |-> parent_node])
    IN  IF current_hierarchy \notin DOMAIN st.nodes
        THEN add_parts(parts, i + 1,
                       [nodes |-> DictSet(st.nodes, current_hierarchy, Len(grown)),
                        tree |-> grown])
        ELSE add_parts(parts, i + 1, st)

\* the outer loop of the tree branch: for key, value in matches
RECURSIVE add_matches(_, _)
add_matches(matches, st) ==
    IF matches = <<>> THEN st
    ELSE add_matches(Tail(matches), add_parts(Split(Head(matches)[1], "."), 0, st))

\* the end of the run of characters [^#\s]+ that starts at value[p-1]
RECURSIVE RunEnd(_, _)
RunEnd(value, p) ==
    IF p < Len(value) /\ value[p + 1] \notin (Whitespace \cup {"#"})
    THEN RunEnd(value, p + 1) ELSE p

\* re.sub(link_pattern, '[bold purple4]\1[/bold purple4]', value), from value[p-1] on;
\* the two style tags are one element each
RECURSIVE MarkFrom(_, _)
MarkFrom(value, p) ==
    IF p > Len(value) THEN <<>>
    ELSE IF p > 1 /\ value[p - 1] = "#" /\ value[p] \notin (Whitespace \cup {"#"})
         THEN <<"[bold purple4]">> \o SubSeq(value, p, RunEnd(value, p))
              \o <<"[/bold purple4]">> \o MarkFrom(value, RunEnd(value, p) + 1)
         ELSE <<value[p]>> \o MarkFrom(value, p + 1)

\* None, and Panel.fit(renderable, subtitle=f"matches for '{input}'")
None == [kind |-> "None"]
Panel(renderable, input) ==
    [kind |-> "Panel", renderable |-> renderable, subtitle |-> input]

\* do_rtfm without the test `if matches:`: a panel is made of no matches too
do_rtfm_unguarded(input, cache, page_type, base_url, tree_mode, tree0) ==
    LET object == NormalizeQuery(input)
        matches == Take(finder(object, cache), MaxResults)
    IN  IF tree_mode
        THEN LET built == add_matches(matches, [nodes |-> EmptyDict, tree |-> tree0])
             IN  [tree |-> built.tree,
                  console_output |-> [docs_links |-> None,
                                      docs_tree |-> Panel(built.tree, input)]]
        ELSE LET match_urls ==
                     [n \in 1..Len(matches) |->
                         [current_url |-> base_url,
                          value |-> MarkFrom(matches[n][2], 1)]]
             IN  [tree |-> tree0,
                  console_output |-> [docs_links |-> Panel(match_urls, input),
                                      docs_tree |-> None]]

\* do_rtfm(input) with self.tree = tree0: the new self.tree and self.console_output
do_rtfm(input, cache, page_type, base_url, tree_mode, tree0) ==
    LET object == NormalizeQuery(input)
        matches == Take(finder(object, cache), MaxResults)
    IN  IF matches # <<>>
        THEN IF tree_mode
             THEN LET built == add_matches(matches, [nodes |-> EmptyDict, tree |-> tree0])
                  IN  [tree |-> built.tree,
                       console_output |-> [docs_links |-> None,
                                           docs_tree |-> Panel(built.tree, input)]]
             ELSE LET match_urls ==
                          [n \in 1..Len(matches) |->
                              [current_url |-> base_url,
                               value |-> MarkFrom(matches[n][2], 1)]]
                  IN  [tree |-> tree0,
                       console_output |-> [docs_links |-> Panel(match_urls, input),
                                           docs_tree |-> None]]
        ELSE [tree |-> tree0,
              console_output |-> [docs_links |-> None, docs_tree |-> None]]

(***************************************************************************)
(* The configuration and the cache files.                                  *)
(***************************************************************************)

DEFAULT_PAGE_TYPE == "stable"
RTFM_PAGE_TYPES ==
    ("stable" :> "https://discordpy.readthedocs.io/en/stable") @@
    ("latest" :> "https://discordpy.readthedocs.io/en/latest") @@
    ("python" :> "https://docs.python.org/3")
\* the keys of RTFM_PAGE_TYPES, in the order a loop over the dict visits them
PageTypes == <<"stable", "latest", "python">>
CACHE_EXTENSION == "_cache.json"
CACHE_FILES == [n \in 1..Len(PageTypes) |-> PageTypes[n] \o CACHE_EXTENSION]

\* the content of a file: a JSON object (its members) or bytes json.load rejects
Corrupt == [valid |-> FALSE, members |-> {}]

\* os.path.isfile(os.path.join(DATA_FULL_PATH, name))
isfile(files, name) == name \in DOMAIN files

\* os.remove of each of `names` that is a file
remove_all(files, names) ==
    [f \in DOMAIN files \ {names[n] : n \in 1..Len(names)} |-> files[f]]

\* json.dump(cache, fp)
json_dump(cache) ==
    [valid |-> TRUE, members |-> {<<k, cache[k]>> : k \in DOMAIN cache}]

\* json.load(fp) of valid content
json_load(content) ==
    [k \in {m[1] : m \in content.members} |->
        (CHOOSE m \in content.members : m[1] = k)[2]]

\* save_cache(name, cache): the files afterwards
save_cache(files, name, cache) ==
    DictSet(files, name \o CACHE_EXTENSION, json_dump(cache))

(***************************************************************************)
(* build_rtfm_lookup_table.  `responses` is what session.get returns (or   *)
(* raises) for each page type.                                             *)
(***************************************************************************)

\* build_key with response.raise_for_status(): a non-success response raises
build_key_raise_for_status(key, st, responses) ==
    IF isfile(st.disk, key)
    THEN IF st.disk[key].valid
         THEN [st EXCEPT !.rtfm_cache = DictSet(@, key, json_load(st.disk[key]))]
         ELSE [st EXCEPT !.raised = TRUE]
    ELSE IF key \notin DOMAIN RTFM_PAGE_TYPES
    THEN [st EXCEPT !.raised = TRUE]
    ELSE
    LET response == responses[key]
        logged == [st EXCEPT !.fetchlog = Append(@, [key |-> key, response |-> response])]
        built == parse_object_inv(response.content)
    IN  IF response.error \/ response.status_code # 200
        THEN [logged EXCEPT !.raised = TRUE]
        ELSE IF built.raised
             THEN [logged EXCEPT !.raised = TRUE]
             ELSE [logged EXCEPT
                       !.rtfm_cache = DictSet(@, key, built.result),
                       !.disk = save_cache(@, key, built.result)]

\* the body of the for loop for one key; raised = TRUE when it leaves by an exception
build_key(key, st, responses) ==
    IF isfile(st.disk, key)
    THEN IF st.disk[key].valid
         THEN [st EXCEPT !.rtfm_cache = DictSet(@, key, json_load(st.disk[key]))]
         ELSE [st EXCEPT !.raised = TRUE]
    ELSE IF key \notin DOMAIN RTFM_PAGE_TYPES
    THEN [st EXCEPT !.raised = TRUE]
    ELSE
    LET response == responses[key]
        logged == [st EXCEPT !.fetchlog = Append(@, [key |-> key, response |-> response])]
        built == parse_object_inv(response.content)
    IN  IF response.error
        THEN [logged EXCEPT !.raised = TRUE]
        ELSE IF response.status_code = 200
        THEN IF built.raised
             THEN [logged EXCEPT !.raised = TRUE]
             ELSE [logged EXCEPT
                       !.rtfm_cache = DictSet(@, key, built.result),
                       !.disk = save_cache(@, key, built.result)]
        ELSE logged

\* for key in missing_files, inside the try: an exception ends the loop
RECURSIVE build_keys(_, _, _)
build_keys(missing_files, st, responses) ==
    IF missing_files = <<>> \/ st.raised THEN st
    ELSE build_keys(Tail(missing_files), build_key(Head(missing_files), st, responses),
                    responses)

\* build_rtfm_lookup_table(missing_files): `except Exception` prints and returns
build_rtfm_lookup_table(missing_files, st, responses) ==
    [build_keys(missing_files, st, responses) EXCEPT !.raised = FALSE]

(***************************************************************************)
(* run.                                                                    *)
(***************************************************************************)

\* for key in RTFM_PAGE_TYPES: load the cache file if it is there; json.load
\* raising leaves the loop and run
RECURSIVE load_keys(_, _)
load_keys(keys, st) ==
    IF keys = <<>> \/ st.raised THEN st
    ELSE LET key == Head(keys)
             name == key \o CACHE_EXTENSION
         IN  IF isfile(st.disk, name)
             THEN IF st.disk[name].valid
                  THEN load_keys(Tail(keys),
                           [st EXCEPT !.rtfm_cache = DictSet(@, key, json_load(st.disk[name])),
                                      !.available_cache_files = Append(@, key)])
                  ELSE [st EXCEPT !.raised = TRUE]
             ELSE load_keys(Tail(keys), st)

\* the keys among `keys` without a cache file, in order
RECURSIVE missing_of(_, _)
missing_of(keys, files) ==
    IF keys = <<>> THEN <<>>
    ELSE (IF isfile(files, Head(keys) \o CACHE_EXTENSION) THEN <<>> ELSE <<Head(keys)>>)
         \o missing_of(Tail(keys), files)

\* run without lines 144-146: the page type is kept though its index is not loaded
run_keeping_page_type(refresh_cache, self, files, responses) ==
    LET cleared == IF refresh_cache THEN remove_all(files, CACHE_FILES) ELSE files
        missing_files == IF refresh_cache THEN CACHE_FILES
                         ELSE missing_of(PageTypes, files)
        st0 == [rtfm_cache |-> self.rtfm_cache, disk |-> cleared, fetchlog |-> <<>>,
                raised |-> FALSE, available_cache_files |-> <<>>]
        st1 == IF missing_files # <<>>
               THEN build_rtfm_lookup_table(missing_files, st0, responses)
               ELSE st0
        st2 == load_keys(PageTypes, st1)
        n == Cardinality(DOMAIN st2.rtfm_cache)
        out(pc_, page) == [pc |-> pc_, rtfm_cache |-> st2.rtfm_cache, disk |-> st2.disk,
                           fetchlog |-> st2.fetchlog, current_page_type |-> page]
    IN  IF st2.raised THEN out("crashed", self.current_page_type)
        ELSE IF n = Len(PageTypes) THEN out("ready", self.current_page_type)
        ELSE IF 1 < n /\ n < Len(PageTypes)
        THEN out("ready", self.current_page_type)
        ELSE out("exited", self.current_page_type)

\* run(refresh_cache) from the object state `self` and the files `files`
run(refresh_cache, self, files, responses) ==
    LET cleared == IF refresh_cache THEN remove_all(files, CACHE_FILES) ELSE files
        missing_files == IF refresh_cache THEN CACHE_FILES
                         ELSE missing_of(PageTypes, files)
        st0 == [rtfm_cache |-> self.rtfm_cache, disk |-> cleared, fetchlog |-> <<>>,
                raised |-> FALSE, available_cache_files |-> <<>>]
        st1 == IF missing_files # <<>>
               THEN build_rtfm_lookup_table(missing_files, st0, responses)
               ELSE st0
        st2 == load_keys(PageTypes, st1)
        n == Cardinality(DOMAIN st2.rtfm_cache)
        out(pc_, page) == [pc |-> pc_, rtfm_cache |-> st2.rtfm_cache, disk |-> st2.disk,
                           fetchlog |-> st2.fetchlog, current_page_type |-> page]
        listed(k) == \E i \in 1..Len(st2.available_cache_files) :
                         st2.available_cache_files[i] = k
    IN  IF st2.raised THEN out("crashed", self.current_page_type)
        ELSE IF n = Len(PageTypes) THEN out("ready", self.current_page_type)
        ELSE IF 1 < n /\ n < Len(PageTypes)
        THEN IF ~listed(self.current_page_type)
             THEN IF st2.available_cache_files = <<>>
                  THEN out("crashed", self.current_page_type)
                  ELSE out("ready", st2.available_cache_files[1])
             ELSE out("ready", self.current_page_type)
        ELSE out("exited", self.current_page_type)

(***************************************************************************)
(* The inputs: lines, payloads, responses, files found at startup, and     *)
(* what the user types.                                                    *)
(***************************************************************************)

\* a decompressed line entry_regex matches, by its groups
Entry(name, directive, location, dispname) ==
    [matched |-> TRUE, name |-> name, directive |-> directive,
     location |-> location, dispname |-> dispname]
\* a decompressed line entry_regex does not match
NoMatch ==
    [matched |-> FALSE, name |-> <<>>, directive |-> <<>>,
     location |-> <<>>, dispname |-> <<>>]

PROJECT_LABEL == <<"#"," ","P","r","o","j","e","c","t",":"," ">>
PY_CLASS == <<"p","y",":","c","l","a","s","s">>
STD_TERM == <<"s","t","d",":","t","e","r","m">>
STD_LABEL == <<"s","t","d",":","l","a","b","e","l">>
STD_OPCODE == <<"s","t","d",":","o","p","c","o","d","e">>

\* a payload with a well-formed header for project `projname`
Payload(projname, lines) ==
    [version_line |-> INV_VERSION \o <<"\n">>,
     project_line |-> PROJECT_LABEL \o projname \o <<"\n">>,
     compress_line |-> <<"#", " ">> \o ZLIB \o <<".", "\n">>,
     lines |-> lines]

\* the inventory of a discord.py site
DiscordPayload ==
    Payload(DISCORD_PY,
            <<Entry(DISCORD \o <<"a">>, PY_CLASS, <<"p", "#", "$">>, <<"-">>),
              Entry(DISCORD \o <<"a", ".", "b">>, PY_CLASS, <<"p", "#", "$">>, <<"-">>),
              NoMatch>>)
\* the inventory of the Python site
PythonPayload ==
    Payload(<<"P", "y">>,
            <<Entry(<<"a", "c">>, PY_MODULE, <<"m">>, <<"-">>),
              Entry(<<"c">>, STD_TERM, <<"g", "#", "$">>, <<"C">>)>>)
\* an inventory fetched by an earlier run of the program
OldPayload ==
    Payload(<<"P", "y">>, <<Entry(<<"a">>, PY_CLASS, <<"o">>, <<"-">>)>>)
\* a body whose first line is not the version literal
BadVersionPayload ==
    [DiscordPayload EXCEPT !.version_line = <<"#", " ", "1", "\n">>]
\* a body whose fourth line does not name zlib
NoZlibPayload ==
    [DiscordPayload EXCEPT !.compress_line = <<"#", " ", "g", "z", "\n">>]

\* what session.get gives: a response, or (error) an exception of httpx
Response(status_code, content) ==
    [error |-> FALSE, status_code |-> status_code, content |-> content]
ConnectError == [error |-> TRUE, status_code |-> 0, content |-> BadVersionPayload]
\* the inventory the site of page type `key` serves
SitePayload(key) == IF key = "python" THEN PythonPayload ELSE DiscordPayload
\* what the site of page type `key` may answer
Responses(key) ==
    {Response(200, SitePayload(key)), Response(200, BadVersionPayload),
     Response(200, NoZlibPayload), Response(404, BadVersionPayload), ConnectError}
\* the answers of all sites
Servers ==
    {sv \in [DOMAIN RTFM_PAGE_TYPES ->
                UNION {Responses(k) : k \in DOMAIN RTFM_PAGE_TYPES}] :
        \A k \in DOMAIN RTFM_PAGE_TYPES : sv[k] \in Responses(k)}

\* a response that is a 200 with a payload parse_object_inv accepts
WellFormed(response) ==
    /\ ~response.error
    /\ response.status_code = 200
    /\ ~parse_object_inv(response.content).raised

\* the cache directory as the program may find it: each cache file absent,
\* written by an earlier run, or damaged since
InitialDisks ==
    LET contents == {json_dump(parse_object_inv(OldPayload).result), Corrupt}
        names == {CACHE_FILES[n] : n \in 1..Len(CACHE_FILES)}
    IN  UNION {[present -> contents] : present \in SUBSET names}

\* free text typed at the prompt
Inputs == {<<"A">>, <<"z">>}

(***************************************************************************)
(* The process: RTFM() and then main().                                    *)
(***************************************************************************)

Cmd(op, page, input) == [op |-> op, page |-> page, input |-> input]

NoPayload == Payload(<<>>, <<>>)
Unparsed == [state |-> "none", result |-> EmptyDict]
\* no function under check
NoCall == [fn |-> "none"]
NotReturned == [done |-> FALSE]
Returned(value) == [done |-> TRUE, value |-> value]

\* the fields __init__ sets before it calls run
InitObject ==
    /\ rtfm_cache = EmptyDict
    /\ current_page_type = DEFAULT_PAGE_TYPE
    /\ render_tree = FALSE
    /\ tree = NewTree
    /\ console_output = [docs_links |-> None, docs_tree |-> None]
    /\ printed = "nothing"
    /\ lastCmd = Cmd("init", "", <<>>)
    /\ fetchlog = <<>>
    /\ found = {}

Init ==
    /\ pc = "start"
    /\ disk \in InitialDisks
    /\ server \in Servers
    /\ InitObject
    /\ inv = NoPayload
    /\ parsed = Unparsed
    /\ call = NoCall
    /\ ret = NotReturned

\* the effect of run(refresh_cache) on the state
Ran(refresh_cache) ==
    LET r == run(refresh_cache,
                 [rtfm_cache |-> rtfm_cache, current_page_type |-> current_page_type],
                 disk, server)
    IN  /\ pc' = r.pc
        /\ disk' = r.disk
        /\ rtfm_cache' = r.rtfm_cache
        /\ current_page_type' = r.current_page_type
        /\ fetchlog' = r.fetchlog
        /\ found' = DOMAIN disk

\* RTFM(): __init__ calls run()
Startup ==
    /\ pc = "start"
    /\ Ran(FALSE)
    /\ lastCmd' = Cmd("start", "", <<>>)
    /\ UNCHANGED <<render_tree, tree, console_output, printed, server, inv, parsed, call, ret>>

\* main, command 'refresh'
Refresh ==
    /\ pc = "ready"
    /\ tree' = NewTree
    /\ Ran(TRUE)
    /\ lastCmd' = Cmd("refresh", "", <<>>)
    /\ printed' = "nothing"
    /\ UNCHANGED <<render_tree, console_output, server, inv, parsed, call, ret>>

\* the switch without the test `command in self.rtfm_cache`
SwitchSourceUnchecked(command) ==
    /\ pc = "ready"
    /\ command \in DOMAIN RTFM_PAGE_TYPES
    /\ tree' = NewTree
    /\ current_page_type' = command
    /\ lastCmd' = Cmd("switch", command, <<>>)
    /\ printed' = "nothing"
    /\ UNCHANGED <<pc, disk, rtfm_cache, render_tree, console_output, fetchlog,
                   found, server, inv, parsed, call, ret>>

\* main, command in RTFM_PAGE_TYPES
SwitchSource(command) ==
    /\ pc = "ready"
    /\ command \in DOMAIN RTFM_PAGE_TYPES
    /\ tree' = NewTree
    /\ current_page_type' = IF command \in DOMAIN rtfm_cache
                            THEN command ELSE current_page_type
    /\ lastCmd' = Cmd("switch", command, <<>>)
    /\ printed' = "nothing"
    /\ UNCHANGED <<pc, disk, rtfm_cache, render_tree, console_output, fetchlog,
                   found, server, inv, parsed, call, ret>>

\* main, command 'mode'
Mode ==
    /\ pc = "ready"
    /\ tree' = NewTree
    /\ render_tree' = ~render_tree
    /\ lastCmd' = Cmd("mode", "", <<>>)
    /\ printed' = "nothing"
    /\ UNCHANGED <<pc, disk, rtfm_cache, current_page_type, console_output, fetchlog,
                   found, server, inv, parsed, call, ret>>

\* main, command 'quit'
Quit ==
    /\ pc = "ready"
    /\ tree' = NewTree
    /\ pc' = "quit"
    /\ lastCmd' = Cmd("quit", "", <<>>)
    /\ printed' = "nothing"
    /\ UNCHANGED <<disk, rtfm_cache, current_page_type, render_tree, console_output,
                   fetchlog, found, server, inv, parsed, call, ret>>

\* what main prints after do_rtfm
Shown(output) ==
    IF output.docs_tree # None THEN "docs_tree"
    ELSE IF output.docs_links # None THEN "docs_links"
    ELSE "no_results"

\* main, any other command: the text typed is a query
Query(typed) ==
    /\ pc = "ready"
    /\ LET command == Lower(typed)
       IN  IF current_page_type \in DOMAIN rtfm_cache
           THEN LET r == do_rtfm(command, rtfm_cache[current_page_type],
                                 current_page_type, RTFM_PAGE_TYPES[current_page_type],
                                 render_tree, NewTree)
                IN  /\ tree' = r.tree
                    /\ console_output' = r.console_output
                    /\ printed' = Shown(r.console_output)
                    /\ pc' = pc
                    /\ lastCmd' = Cmd("query", "", command)
           ELSE \* KeyError in do_rtfm
                /\ tree' = NewTree
                /\ pc' = "crashed"
                /\ lastCmd' = Cmd("query", "", command)
                /\ UNCHANGED <<console_output, printed>>
    /\ UNCHANGED <<disk, rtfm_cache, current_page_type, render_tree, fetchlog, found, server,
                   inv, parsed, call, ret>>

Next ==
    \/ Startup
    \/ Refresh
    \/ \E command \in DOMAIN RTFM_PAGE_TYPES : SwitchSource(command)
    \/ Mode
    \/ Quit
    \/ \E typed \in Inputs : Query(typed)

Spec == Init /\ [][Next]_vars

(***************************************************************************)
(* The parser on its own: parse_object_inv applied to every payload of a   *)
(* bounded family.                                                         *)
(***************************************************************************)

\* the longest decompressed stream, in lines
MaxLines == 2

Names == {<<"m">>, DISCORD \o <<"m">>}
Directives == {PY_MODULE, PY_CLASS, STD_TERM, STD_LABEL, STD_DOC, STD_OPCODE}
Locations == {<<"x">>, <<"y", "#", "$">>}
Dispnames == {<<"-">>, <<"m">>}
Lines ==
    {Entry(n, d, l, dn) : n \in Names, d \in Directives, l \in Locations, dn \in Dispnames}
    \cup {NoMatch}
Projects == {DISCORD_PY, <<"P", "y">>}
LineSeqs(max) == UNION {[1..n -> Lines] : n \in 0..max}

ParseInputs ==
    {Payload(p, ls) : p \in Projects, ls \in LineSeqs(MaxLines)}
    \cup {[Payload(p, ls) EXCEPT !.version_line = BadVersionPayload.version_line] :
             p \in Projects, ls \in LineSeqs(1)}
    \cup {[Payload(p, ls) EXCEPT !.compress_line = NoZlibPayload.compress_line] :
             p \in Projects, ls \in LineSeqs(1)}

InitParse ==
    /\ pc = "start"
    /\ disk = EmptyDict
    /\ server = [k \in DOMAIN RTFM_PAGE_TYPES |-> ConnectError]
    /\ InitObject
    /\ inv \in ParseInputs
    /\ parsed = Unparsed
    /\ call = NoCall
    /\ ret = NotReturned

\* self.parse_object_inv(SphinxObjectFileReader(inv))
Parse ==
    /\ parsed.state = "none"
    /\ LET r == parse_object_inv(inv)
       IN  parsed' = [state |-> IF r.raised THEN "raised" ELSE "ok", result |-> r.result]
    /\ UNCHANGED <<pc, disk, rtfm_cache, current_page_type, render_tree, tree,
                   console_output, printed, lastCmd, fetchlog, found, server, inv,
                   call, ret>>

NextParse == Parse

SpecParse == InitParse /\ [][NextParse]_vars

(***************************************************************************)
(* Properties of the process (Spec).                                       *)
(***************************************************************************)

CacheFile(key) == key \o CACHE_EXTENSION
Configured == DOMAIN RTFM_PAGE_TYPES
Loaded == DOMAIN rtfm_cache
\* the page types the last run() sent a GET for
Fetched == {fetchlog[i].key : i \in 1..Len(fetchlog)}
\* the page types without a cache file when the last run() began
Lacking == {k \in Configured : CacheFile(k) \notin found}
\* the place of a page type in the build order
Pos(key) == CHOOSE n \in 1..Len(PageTypes) : PageTypes[n] = key
\* the index parse_object_inv builds from what the site of `key` serves
Fresh(key) == parse_object_inv(server[key].content).result
\* the fetch of `key` ends the build loop by an exception
FetchRaises(key) ==
    \/ server[key].error
    \/ server[key].status_code = 200 /\ parse_object_inv(server[key].content).raised
\* `key` got a response that is not a success
NonSuccess(key) == ~server[key].error /\ server[key].status_code # 200
\* `key` got a 200 whose payload fails the header checks
Malformed(key) ==
    /\ ~server[key].error
    /\ server[key].status_code = 200
    /\ parse_object_inv(server[key].content).raised

\* C1: after a refresh with every site serving a well-formed payload, every
\* configured source has been fetched again, has a cache file again, and its
\* loaded index is the one built from the payload just fetched.
C1_RefreshRebuildsAll ==
    (lastCmd.op = "refresh" /\ \A k \in Configured : WellFormed(server[k]))
    => \A k \in Configured :
           /\ k \in Fetched
           /\ isfile(disk, CacheFile(k))
           /\ k \in Loaded
           /\ rtfm_cache[k] = Fresh(k)

\* C2: once startup has succeeded the process ends only by quit: no command
\* among refresh, switch-source, mode and query makes it exit or abort.
C2_ReplEndsOnlyByQuit ==
    /\ pc \in {"exited", "crashed"} => lastCmd.op = "start"
    /\ pc = "quit" => lastCmd.op = "quit"

\* C3: after the startup pass the process has exited if 0 or 1 sources are
\* loaded and is at the prompt if 2 or 3 are.
C3_StartupFatalIffFewerThanTwo ==
    lastCmd.op = "start"
    => IF Cardinality(Loaded) >= 2 THEN pc = "ready" ELSE pc \in {"exited", "crashed"}

\* C4: at startup a GET is sent for exactly the configured sources that have
\* no cache file.
C4_FetchesExactlyTheMissing ==
    lastCmd.op = "start" => Fetched = Lacking

\* C5: a payload that fails the header checks ends only its own source's
\* build: every missing source later in the build order is still fetched, and
\* built and saved when its own payload is well-formed.
C5_FormatErrorEndsOnlyItsSource ==
    lastCmd.op = "start"
    => \A k \in Fetched : Malformed(k)
          => \A later \in Lacking : Pos(later) > Pos(k)
                => /\ later \in Fetched
                   /\ WellFormed(server[later])
                        => /\ later \in Loaded
                           /\ isfile(disk, CacheFile(later))

C7_CorruptRecordOnlyItsSource ==
    (lastCmd.op = "start" /\ \E f \in DOMAIN disk : ~disk[f].valid)
    => /\ pc # "crashed"
       /\ \A k \in Configured :
              isfile(disk, CacheFile(k)) /\ disk[CacheFile(k)].valid => k \in Loaded
       /\ Cardinality({k \in Configured :
                          isfile(disk, CacheFile(k)) /\ disk[CacheFile(k)].valid}) >= 2
            => pc = "ready"

\* C8: switch-source makes the named source the active one exactly when it
\* has a loaded index; otherwise the active source, the render mode and the
\* loaded indices stay as they were.
C8_SwitchOnlyToLoaded ==
    [][\A command \in Configured :
          (pc = "ready" /\ lastCmd' = Cmd("switch", command, <<>>))
          => IF command \in Loaded
             THEN current_page_type' = command
             ELSE /\ current_page_type' = current_page_type
                  /\ render_tree' = render_tree
                  /\ rtfm_cache' = rtfm_cache]_vars

\* a switch to a source without an index has been rejected
C8_Witness ==
    /\ pc = "ready"
    /\ lastCmd.op = "switch"
    /\ lastCmd.page \notin Loaded
    /\ current_page_type # lastCmd.page

\* some key of the active index contains the query as a subsequence
HasMatch ==
    \E k \in DOMAIN rtfm_cache[current_page_type] :
        Searches(k, NormalizeQuery(lastCmd.input))

\* C9: a query leaves exactly one kind of result: never a tree and links
\* together; the tree iff something matches and the mode is hierarchical, the
\* links iff something matches and the mode is flat, the empty indicator iff
\* nothing matches; and what is left is the result of this query.
C9_OneKindOfResult ==
    (lastCmd.op = "query" /\ pc = "ready")
    => /\ ~(console_output.docs_tree # None /\ console_output.docs_links # None)
       /\ console_output.docs_tree # None <=> (HasMatch /\ render_tree)
       /\ console_output.docs_links # None <=> (HasMatch /\ ~render_tree)
       /\ printed = "docs_tree" <=> (HasMatch /\ render_tree)
       /\ printed = "docs_links" <=> (HasMatch /\ ~render_tree)
       /\ printed = "no_results" <=> ~HasMatch
       /\ console_output.docs_tree # None
            => /\ console_output.docs_tree.subtitle = lastCmd.input
               /\ console_output.docs_tree.renderable = tree
       /\ console_output.docs_links # None
            => /\ console_output.docs_links.subtitle = lastCmd.input
               /\ \A n \in 1..Len(console_output.docs_links.renderable) :
                      console_output.docs_links.renderable[n].current_url
                          = RTFM_PAGE_TYPES[current_page_type]

\* a query in hierarchical mode has left a tree
C9_Witness ==
    /\ lastCmd.op = "query"
    /\ pc = "ready"
    /\ render_tree
    /\ printed = "docs_tree"
    /\ console_output.docs_links = None

(***************************************************************************)
(* Properties of the parser (SpecParse).                                   *)
(***************************************************************************)

\* the project name parse_object_inv reads from the header of inv
ProjName == DropPrefix(Rstrip(inv.project_line), HeaderLabelLen)
IsModule(line) == line.matched /\ line.directive = PY_MODULE

\* C10: of two module-definition entries with the same name, the index holds
\* the location of the first, whatever the project and whatever the second
\* one's location or display name (no other entry writing the first one's key).
C10_ModuleDuplicatesKeepFirst ==
    parsed.state = "ok"
    => \A i \in 1..Len(inv.lines), j \in 1..Len(inv.lines) :
           LET first == inv.lines[i]
               second == inv.lines[j]
           IN  (/\ i < j
                /\ IsModule(first) /\ IsModule(second)
                /\ first.name = second.name
                /\ \A h \in 1..Len(inv.lines) :
                       (h # i /\ inv.lines[h].matched /\ inv.lines[h].name # first.name)
                       => index_key(inv.lines[h], ProjName) # index_key(first, ProjName)
                /\ \A h \in 1..Len(inv.lines) :
                       (inv.lines[h].matched /\ inv.lines[h].name = first.name)
                       => IsModule(inv.lines[h]) /\ h >= i)
               => /\ index_key(first, ProjName) \in DOMAIN parsed.result
                  /\ parsed.result[index_key(first, ProjName)] = index_location(first)

(***************************************************************************)
(* The matcher on its own: finder(object, cache)[:8] of do_rtfm applied to *)
(* every query and index of a bounded family.                              *)
(***************************************************************************)

\* the keys the indices are drawn from
FinderKeys ==
    {<<"a">>, <<"b">>, <<"A", "b">>, <<"a", "b">>, <<"b", "a">>, <<"c", "a", "b">>,
     <<"b", ".", "a">>, <<".", "a">>, <<"a", ".", "b">>, <<"B", "a", "b">>}
\* the queries, as main hands them on: lower case
FinderTexts == {<<>>, <<"a">>, <<"b">>, <<"a", "b">>, <<"d">>}
\* an index with the keys `keys`: each key with a location of its own
IndexOf(keys) == [k \in keys |-> <<"p", "#">> \o k]

FinderCalls ==
    {[fn |-> "finder", text |-> t, cache |-> IndexOf(keys)] :
        t \in FinderTexts, keys \in SUBSET FinderKeys}

\* matches = finder(object, cache, key=lambda t: t[0])[:8]
rtfm_matches(object, cache) == Take(finder(object, cache), MaxResults)

InitFinder ==
    /\ pc = "start"
    /\ disk = EmptyDict
    /\ server = [k \in DOMAIN RTFM_PAGE_TYPES |-> ConnectError]
    /\ InitObject
    /\ inv = NoPayload
    /\ parsed = Unparsed
    /\ call \in FinderCalls
    /\ ret = NotReturned

\* the call of finder in do_rtfm and the slice of its result
Find ==
    /\ call.fn = "finder"
    /\ ~ret.done
    /\ ret' = Returned(rtfm_matches(call.text, call.cache))
    /\ UNCHANGED <<pc, disk, rtfm_cache, current_page_type, render_tree, tree,
                   console_output, printed, lastCmd, fetchlog, found, server, inv, parsed,
                   call>>

NextFinder == Find

SpecFinder == InitFinder /\ [][NextFinder]_vars

(***************************************************************************)
(* Properties of the matcher (SpecFinder).                                 *)
(***************************************************************************)

\* text[j-1:] is, case-insensitively, a subsequence of key[i-1:]
RECURSIVE SubsequenceFrom(_, _, _, _)
SubsequenceFrom(key, text, i, j) ==
    IF j > Len(text) THEN TRUE
    ELSE IF i > Len(key) THEN FALSE
    ELSE IF LowerChar(key[i]) = LowerChar(text[j])
         THEN SubsequenceFrom(key, text, i + 1, j + 1)
         ELSE SubsequenceFrom(key, text, i + 1, j)

\* the zero-based offset at which the leftmost occurrence of text in key begins
LeftmostOffset(key, text) ==
    IF text = <<>> THEN 0
    ELSE (CHOOSE i \in 1..Len(key) :
              /\ LowerChar(key[i]) = LowerChar(text[1])
              /\ SubsequenceFrom(key, text, i + 1, 2)
              /\ \A h \in 1..(i - 1) :
                     ~(LowerChar(key[h]) = LowerChar(text[1])
                       /\ SubsequenceFrom(key, text, h + 1, 2))) - 1

\* the keys of the index of the call that contain the query
Matching == {k \in DOMAIN call.cache : SubsequenceFrom(k, call.text, 1, 1)}

\* key a ranks before key b: by (offset, key)
RanksBefore(a, b) ==
    LET oa == LeftmostOffset(a, call.text)
        ob == LeftmostOffset(b, call.text)
    IN  oa < ob \/ (oa = ob /\ StrLess(a, b))

\* C11: the result of a query is the first 8 of the matching entries in the
\* order of (leftmost match offset, key): it has min(8, number of matching
\* entries) elements, each an entry of the index whose key contains the query
\* as a case-insensitive subsequence, in ranked order, and no matching entry
\* left out ranks before one returned.
C11_FirstEightRanked ==
    (call.fn = "finder" /\ ret.done)
    => LET matches == ret.value
           returned == {matches[n][1] : n \in 1..Len(matches)}
       IN  /\ Len(matches) = IF Cardinality(Matching) < 8 THEN Cardinality(Matching) ELSE 8
           /\ \A n \in 1..Len(matches) :
                  /\ matches[n][1] \in Matching
                  /\ matches[n][2] = call.cache[matches[n][1]]
           /\ \A n \in 1..Len(matches), m \in 1..Len(matches) :
                  n < m => RanksBefore(matches[n][1], matches[m][1])
           /\ \A k \in Matching \ returned :
                  \A n \in 1..Len(matches) : ~RanksBefore(k, matches[n][1])

\* more than 8 entries match a query that is not empty: the result is cut, and
\* the entries returned begin their match at different offsets
C11_Witness ==
    /\ call.fn = "finder"
    /\ ret.done
    /\ call.text # <<>>
    /\ Cardinality(Matching) > 8
    /\ Len(ret.value) = 8
    /\ \E n \in 1..Len(ret.value), m \in 1..Len(ret.value) :
           LeftmostOffset(ret.value[n][1], call.text)
               # LeftmostOffset(ret.value[m][1], call.text)

(***************************************************************************)
(* The hierarchical grouping on its own: do_rtfm in tree mode applied to   *)
(* every query and index of a bounded family.                              *)
(***************************************************************************)

\* the keys the indices are drawn from
TreeKeys ==
    {<<"a", ".", "b", ".", "c">>, <<"a", ".", "b", ".", "d">>, <<"a", ".", "e">>,
     <<"a">>, <<"b">>, <<".", "a">>, <<"a", ".", ".", "b">>}
\* the commands typed: an empty line, and a letter
TreeInputs == {<<>>, <<"a">>, <<"b">>}

TreeCalls ==
    {[fn |-> "do_rtfm", input |-> i, cache |-> IndexOf(keys)] :
        i \in TreeInputs, keys \in SUBSET TreeKeys}

InitTree ==
    /\ pc = "start"
    /\ disk = EmptyDict
    /\ server = [k \in DOMAIN RTFM_PAGE_TYPES |-> ConnectError]
    /\ InitObject
    /\ inv = NoPayload
    /\ parsed = Unparsed
    /\ call \in TreeCalls
    /\ ret = NotReturned

\* self.tree = Tree(''); self.do_rtfm(command) with self.render_tree set
Group ==
    /\ call.fn = "do_rtfm"
    /\ ~ret.done
    /\ ret' = Returned(do_rtfm(call.input, call.cache, DEFAULT_PAGE_TYPE,
                               RTFM_PAGE_TYPES[DEFAULT_PAGE_TYPE], TRUE, NewTree))
    /\ UNCHANGED <<pc, disk, rtfm_cache, current_page_type, render_tree, tree,
                   console_output, printed, lastCmd, fetchlog, found, server, inv, parsed,
                   call>>

NextTree == Group

SpecTree == InitTree /\ [][NextTree]_vars

(***************************************************************************)
(* Properties of the grouping (SpecTree).                                  *)
(***************************************************************************)

\* the keys matched by the query of the call
MatchedKeys ==
    LET matches == rtfm_matches(NormalizeQuery(call.input), call.cache)
    IN  {matches[n][1] : n \in 1..Len(matches)}

\* the dotted prefixes of a key: its first i segments joined by dots
PrefixesOf(key) ==
    LET parts == Split(key, ".")
    IN  {Join(SubSeq(parts, 1, i), ".") : i \in 1..Len(parts)}

\* the distinct dotted prefixes occurring in the matches
MatchedPrefixes == UNION {PrefixesOf(k) : k \in MatchedKeys}

\* the labels on the way from the root to node n of tree t, joined by dots
RECURSIVE PathOf(_, _)
PathOf(t, n) ==
    IF t[n].parent = 0 THEN t[n].label
    ELSE PathOf(t, t[n].parent) \o <<".">> \o t[n].label

\* C12: the tree has exactly one node per distinct dotted prefix of the
\* matched keys, and the node of a prefix sits where the prefix says: under
\* the root for one segment, under the node of the prefix one segment shorter
\* otherwise, so that the labels from the root to the node spell the prefix;
\* keys with an empty segment (a leading dot) included.
C12_OneNodePerPrefix ==
    (call.fn = "do_rtfm" /\ ret.done)
    => LET t == ret.value.tree
       IN  /\ Len(t) = Cardinality(MatchedPrefixes)
           /\ \A p \in MatchedPrefixes :
                  Cardinality({n \in 1..Len(t) : PathOf(t, n) = p}) = 1

(***************************************************************************)
(* SphinxObjectFileReader.read_compressed_lines.  What                     *)
(* read_compressed_chunks yields is a sequence of chunks of decompressed   *)
(* bytes, cut wherever the decompressor cuts them, the last one the flush; *)
(* a byte is a one-character string.                                       *)
(***************************************************************************)

\* buf.find(b'\n'), counted from 1; 0 stands for -1
find_newline(buf) ==
    IF \E i \in 1..Len(buf) : buf[i] = "\n"
    THEN CHOOSE i \in 1..Len(buf) : buf[i] = "\n" /\ \A j \in 1..(i - 1) : buf[j] # "\n"
    ELSE 0

\* the while loop: yield buf[:pos] and cut it off, as long as buf has a newline
RECURSIVE yield_lines(_)
yield_lines(st) ==
    LET pos == find_newline(st.buf)
    IN  IF pos # 0
        THEN yield_lines([yielded |-> Append(st.yielded, SubSeq(st.buf, 1, pos - 1)),
                          buf |-> SubSeq(st.buf, pos + 1, Len(st.buf))])
        ELSE st

\* the for loop over the chunks
RECURSIVE read_chunks(_, _)
read_chunks(chunks, st) ==
    IF chunks = <<>> THEN st
    ELSE read_chunks(Tail(chunks),
                     yield_lines([st EXCEPT !.buf = @ \o Head(chunks)]))

\* a reader that yields what is left in buf after the last chunk as a line
read_compressed_lines_flushing(chunks) ==
    LET st == read_chunks(chunks, [yielded |-> <<>>, buf |-> <<>>])
    IN  IF st.buf # <<>> THEN Append(st.yielded, st.buf) ELSE st.yielded

\* list(read_compressed_lines()): the lines yielded, in order
read_compressed_lines(chunks) ==
    read_chunks(chunks, [yielded |-> <<>>, buf |-> <<>>]).yielded

\* the most chunks of a stream, and the most bytes of a chunk
MaxChunks == 3
MaxChunkLen == 2

Bytes == {"a", "\n"}
Chunks == UNION {[1..n -> Bytes] : n \in 0..MaxChunkLen}
ChunkSeqs == UNION {[1..n -> Chunks] : n \in 1..MaxChunks}

LinesCalls == {[fn |-> "read_compressed_lines", chunks |-> cs] : cs \in ChunkSeqs}

InitLines ==
    /\ pc = "start"
    /\ disk = EmptyDict
    /\ server = [k \in DOMAIN RTFM_PAGE_TYPES |-> ConnectError]
    /\ InitObject
    /\ inv = NoPayload
    /\ parsed = Unparsed
    /\ call \in LinesCalls
    /\ ret = NotReturned

\* for line in stream.read_compressed_lines(), run to its end
ReadLines ==
    /\ call.fn = "read_compressed_lines"
    /\ ~ret.done
    /\ ret' = Returned(read_compressed_lines(call.chunks))
    /\ UNCHANGED <<pc, disk, rtfm_cache, current_page_type, render_tree, tree,
                   console_output, printed, lastCmd, fetchlog, found, server, inv, parsed,
                   call>>

NextLines == ReadLines

SpecLines == InitLines /\ [][NextLines]_vars

(***************************************************************************)
(* Properties of the line reader (SpecLines).                              *)
(***************************************************************************)

\* the chunks put together: the whole decompressed byte sequence
RECURSIVE Concat(_)
Concat(chunks) == IF chunks = <<>> THEN <<>> ELSE Head(chunks) \o Concat(Tail(chunks))

\* the places of the newlines in `whole`
NewlinesOf(whole) == {i \in 1..Len(whole) : whole[i] = "\n"}

\* the segment that the newline at place i ends: from after the newline before it
SegmentEndingAt(whole, i) ==
    LET before == {j \in NewlinesOf(whole) : j < i}
        from == IF before = {} THEN 1
                ELSE (CHOOSE j \in before : \A h \in before : h <= j) + 1
    IN  SubSeq(whole, from, i - 1)

\* C13: the lines yielded are, in order, the newline-terminated segments of
\* the chunks put together, however the bytes are cut into chunks: the n-th
\* line is the segment that the n-th newline ends, and the bytes after the
\* last newline are not yielded.
C13_LinesIndependentOfChunking ==
    (call.fn = "read_compressed_lines" /\ ret.done)
    => LET whole == Concat(call.chunks)
           lines == ret.value
       IN  /\ Len(lines) = Cardinality(NewlinesOf(whole))
           /\ \A i \in NewlinesOf(whole) :
                  lines[Cardinality({j \in NewlinesOf(whole) : j <= i})]
                      = SegmentEndingAt(whole, i)

\* a line put together from two chunks, a newline first in its chunk, an empty
\* chunk, and bytes left after the last newline
C13_Witness ==
    /\ call.fn = "read_compressed_lines"
    /\ ret.done
    /\ Len(call.chunks) = 3
    /\ call.chunks[1] = <<"a">>
    /\ call.chunks[2] = <<"\n", "a">>
    /\ call.chunks[3] = <<>>
    /\ ret.value = << <<"a">> >>

(***************************************************************************)
(* More properties of the parser (SpecParse).                              *)
(***************************************************************************)

\* the part of the directive after the first colon
Subdirective(line) == Partition(line.directive, ":")[3]

\* a line left out for its kind: opcode, documentation label, generic document
IsFiltered(line) ==
    /\ line.matched
    /\ \/ Subdirective(line) = OPCODE
       \/ Subdirective(line) = LABEL
       \/ line.directive = STD_DOC

\* a line that is an entry and is not left out for its kind
IsEntry(line) == line.matched /\ ~IsFiltered(line)

\* C14: a module-definition entry whose name was not seen as a module before
\* it, but equals the index key of an earlier entry that is not a module, is
\* not skipped: being the later of the two (and no entry after it writing the
\* same key), its location is the one in the index.
C14_ModuleNotSkippedForOtherKey ==
    parsed.state = "ok"
    => \A i \in 1..Len(inv.lines), j \in 1..Len(inv.lines) :
           LET earlier == inv.lines[i]
               module == inv.lines[j]
           IN  (/\ i < j
                /\ IsEntry(earlier) /\ ~IsModule(earlier)
                /\ IsModule(module)
                /\ module.name = index_key(earlier, ProjName)
                /\ \A h \in 1..(j - 1) :
                       ~(IsModule(inv.lines[h]) /\ inv.lines[h].name = module.name)
                /\ \A h \in (j + 1)..Len(inv.lines) :
                       IsEntry(inv.lines[h])
                       => index_key(inv.lines[h], ProjName) # index_key(module, ProjName))
               => /\ index_key(module, ProjName) \in DOMAIN parsed.result
                  /\ parsed.result[index_key(module, ProjName)] = index_location(module)

\* two lines of the stream are module-definition entries of one name
HasModuleDuplicates ==
    \E i \in 1..Len(inv.lines), j \in 1..Len(inv.lines) :
        /\ i # j
        /\ IsModule(inv.lines[i]) /\ IsModule(inv.lines[j])
        /\ inv.lines[i].name = inv.lines[j].name

\* two entries of the stream have the same index key
HasKeyCollision ==
    \E i \in 1..Len(inv.lines), j \in 1..Len(inv.lines) :
        /\ i # j
        /\ IsEntry(inv.lines[i]) /\ IsEntry(inv.lines[j])
        /\ index_key(inv.lines[i], ProjName) = index_key(inv.lines[j], ProjName)

\* the orderings of a stream of n lines
Orderings(n) == {f \in [1..n -> 1..n] : \A i \in 1..n, j \in 1..n : i # j => f[i] # f[j]}

\* C15: of two entries with the same index key, neither left out for its
\* kind and no module-definition duplicates in the stream, the index holds
\* the location of the later one (the last with that key); and when no two
\* entries have the same index key, the index is the same for every ordering
\* of the lines.
C15_LaterWinsElseOrderFree ==
    (parsed.state = "ok" /\ ~HasModuleDuplicates)
    => /\ \A i \in 1..Len(inv.lines), j \in 1..Len(inv.lines) :
              (/\ i < j
               /\ IsEntry(inv.lines[i]) /\ IsEntry(inv.lines[j])
               /\ index_key(inv.lines[i], ProjName) = index_key(inv.lines[j], ProjName)
               /\ \A h \in (j + 1)..Len(inv.lines) :
                      IsEntry(inv.lines[h])
                      => index_key(inv.lines[h], ProjName) # index_key(inv.lines[j], ProjName))
              => /\ index_key(inv.lines[j], ProjName) \in DOMAIN parsed.result
                 /\ parsed.result[index_key(inv.lines[j], ProjName)]
                        = index_location(inv.lines[j])
       /\ ~HasKeyCollision
            => \A f \in Orderings(Len(inv.lines)) :
                   parse_object_inv(
                       [inv EXCEPT !.lines = [n \in 1..Len(inv.lines) |-> inv.lines[f[n]]]]
                   ).result = parsed.result

\* the payload inv without the lines left out for their kind
WithoutFiltered ==
    [inv EXCEPT !.lines = SelectSeq(inv.lines, LAMBDA line : ~IsFiltered(line))]

\* C16: an opcode entry, a documentation-label entry or a generic-document
\* entry never changes the index: the index built from a stream is the index
\* built from the stream without these entries.
C16_FilteredEntriesChangeNothing ==
    parsed.state = "ok"
    => parsed.result = parse_object_inv(WithoutFiltered).result

\* a stream with an entry that is stored and, after it, an entry left out for
\* its kind; the index has the first and not the second
C16_Witness ==
    /\ parsed.state = "ok"
    /\ \E i \in 1..Len(inv.lines), j \in 1..Len(inv.lines) :
           /\ i < j
           /\ IsEntry(inv.lines[i])
           /\ IsFiltered(inv.lines[j])
           /\ index_key(inv.lines[i], ProjName) \in DOMAIN parsed.result
           /\ index_key(inv.lines[j], ProjName) \notin DOMAIN parsed.result

(***************************************************************************)
(* More properties of the process (Spec).                                  *)
(***************************************************************************)

\* the first header line of the payload is not the version literal, or the
\* fourth does not name the compression scheme
HeaderRejected(payload) ==
    \/ Rstrip(payload.version_line) # INV_VERSION
    \/ ~Contains(payload.compress_line, ZLIB)

\* C17: when the payload fetched for a source has a first header line other
\* than the version literal, or a fourth header line without the compression
\* scheme, the build of the source fails with no index: the source gets no
\* in-memory index and no cache file.
C17_HeaderValidationFailsClosed ==
    \A k \in Fetched :
        (/\ ~server[k].error
         /\ server[k].status_code = 200
         /\ HeaderRejected(server[k].content))
        => /\ parse_object_inv(server[k].content).raised
           /\ parse_object_inv(server[k].content).result = EmptyDict
           /\ k \notin Loaded
           /\ ~isfile(disk, CacheFile(k))

\* a source fetched at startup whose payload lacks the compression scheme, the
\* prompt reached with the other sources
C17_Witness ==
    /\ lastCmd.op = "start"
    /\ pc = "ready"
    /\ \E k \in Fetched :
           /\ ~server[k].error
           /\ server[k].status_code = 200
           /\ Rstrip(server[k].content.version_line) = INV_VERSION
           /\ ~Contains(server[k].content.compress_line, ZLIB)
           /\ server[k].content.lines # <<>>

\* C18: at the prompt the active source has a loaded index and at least two
\* sources are loaded, whatever commands came before; and no query has ended
\* in the lookup of an index that is not there.
C18_ActiveSourceLoadedAtPrompt ==
    /\ pc = "ready" => /\ current_page_type \in Loaded
                       /\ Cardinality(Loaded) >= 2
    /\ ~(pc = "crashed" /\ lastCmd.op = "query")

\* a query answered from a source that startup made the active one because
\* the default source has no index
C18_Witness ==
    /\ pc = "ready"
    /\ lastCmd.op = "query"
    /\ DEFAULT_PAGE_TYPE \notin Loaded
    /\ current_page_type # DEFAULT_PAGE_TYPE
    /\ Cardinality(Loaded) = 2
    /\ printed = "docs_links"

\* C19: at the prompt every source with a loaded index has a cache file, and
\* the content of the file is that index.
C19_MemoryAndDiskCoherent ==
    pc = "ready"
    => \A k \in Loaded :
           /\ isfile(disk, CacheFile(k))
           /\ disk[CacheFile(k)].valid
           /\ json_load(disk[CacheFile(k)]) = rtfm_cache[k]

====
